---- MODULE Spec2Model ----
(***************************************************************************)
(* Two browser widgets of docs/: the 1D Metropolis-Hastings animation      *)
(* (class MCMC1D, mcmc-1d.js) and the Bayes medical-test calculator        *)
(* (class MedicalTestCalculator, medical-test.js).                         *)
(*                                                                         *)
(* Numbers.  Positions, means and standard deviations are fixed-point      *)
(* integers counted in tenths (5 stands for 0.5).  Percentages of the      *)
(* calculator are counted in half percents (200 stands for 100, 1 for      *)
(* 0.5), fine enough for every Math.round of calculatePopulationStats to   *)
(* round up, round down and meet a tie.  A posterior is an exact fraction  *)
(* num/den, or NaN when the code divides 0 by 0.                           *)
(*                                                                         *)
(* Browser.  `timeouts` counts the pending setTimeout callbacks of         *)
(* animate(); their delay (line 121) only fixes when they run, which the   *)
(* model leaves open.  requestAnimationFrame callbacks wait in             *)
(* `frames`, a set of handles.  A handle is the smallest positive integer  *)
(* not pending: every handle the browser returns is stored in animationId  *)
(* at once (line 123), so only "is the handle in animationId still         *)
(* pending" can be observed, and reusing a fired handle keeps that.        *)
(***************************************************************************)
EXTENDS Integers, Sequences, FiniteSets

VARIABLES
    \* MCMC1D fields (mcmc-1d.js:7-18)
    proposalStd, targetMean, targetStd, animationSpeed,
    currentPosition, proposedPosition, samples, acceptedSamples,
    isRunning, animationId,
    \* browser: pending setTimeout callbacks and pending animation frames
    timeouts, frames,
    \* DOM: text of #acceptance-rate (mcmc-1d.js:146)
    acceptanceRate,
    \* the handler that ran last: "init" (the constructor), "start", "pause",
    \* "reset", "input" (a slider), "timeout", "frame-idle", "frame-step"
    lastOp,
    \* MedicalTestCalculator fields (medical-test.js:6-8)
    prevalence, sensitivity, specificity,
    \* DOM: text of #result-probability (medical-test.js:89)
    resultProbability

paramVars == <<proposalStd, targetMean, targetStd, animationSpeed>>
chainVars == <<currentPosition, proposedPosition, samples, acceptedSamples>>
loopVars  == <<isRunning, animationId, timeouts, frames>>
mcmcVars  == <<paramVars, chainVars, loopVars, acceptanceRate>>
medVars   == <<prevalence, sensitivity, specificity, resultProbability>>
vars      == <<mcmcVars, lastOp, medVars>>

----------------------------------------------------------------------------
(* Bounds of the model *)

\* a step is taken only while samples is shorter than this
MaxSamples == 2
\* setTimeout callbacks that may be pending together
MaxTimeouts == 2
\* animation frames that may be pending together
MaxFrames == 1

----------------------------------------------------------------------------
(* Constants of the program *)

InitProposalStd == 5
InitTargetMean == 0
InitTargetStd == 10
InitAnimationSpeed == 3
Origin == 0
\* this.animationId = null; a handle is never 0, and `if (this.animationId)`
\* treats null and 0 alike
NoAnimation == 0
\* Math.sqrt(12) in thousandths
Sqrt12Milli == 3464
\* 1.0, 95.0 and 95.0 percent, in half percents
InitPrevalence == 2
InitSensitivity == 190
InitSpecificity == 190
\* the 100 of `x / 100` and `100 - this.specificity`, in half percents
FullPercent == 200
\* const total = 10000
Total == 10000

\* n percent, in half percents
Pct(n) == 2 * n

\* values the sliders deliver (tenths; animation-speed is 1..5)
ProposalStdValues == {5, 10}
TargetMeanValues == {0, 10}
TargetStdValues == {1, 10}
AnimationSpeedValues == {3, 5}

\* Math.random() in quarters: k stands for k/4, in [0, 1)
RandomDraws == 0 .. 3

----------------------------------------------------------------------------
(* Arithmetic helpers *)

\* a / b rounded to the nearest integer, halves upwards (b > 0)
RoundDiv(a, b) == (2 * a + b) \div (2 * b)

\* a / b rounded to the nearest integer, halves away from 0 (b # 0):
\* the rounding of toFixed for a quotient of either sign
RoundAway(a, b) ==
    LET absA == IF a < 0 THEN -a ELSE a
        absB == IF b < 0 THEN -b ELSE b
        q == RoundDiv(absA, absB)
    IN  IF (a < 0) = (b < 0) THEN q ELSE -q

----------------------------------------------------------------------------
(* MCMC1D: pure methods *)

\* Math.exp(-E) is the double 0 from this E on (the smallest positive double
\* is about exp(-744.4))
ExpUnderflow == 746

\* targetDensity(x) = exp(-E) / sqrt(2 pi variance), E = (x - mean)^2 / (2 variance).
\* The density is kept as the exponent E = eNum / eDen; variance = targetStd^2.
\* A variance of 0 gives NaN (the exponent is 0/0 or -Infinity, and then
\* exp(..)/sqrt(0) is NaN or 0/0); with variance > 0 the density is a positive
\* double, or the double 0 where Math.exp underflows.
targetDensity(x) ==
    LET variance == targetStd * targetStd
        eNum == (x - targetMean) * (x - targetMean)
        eDen == 2 * variance
    IN  IF variance = 0
        THEN [nan |-> TRUE, zero |-> FALSE, eNum |-> 0, eDen |-> 1]
        ELSE [nan |-> FALSE, zero |-> eNum >= ExpUnderflow * eDen,
              eNum |-> eNum, eDen |-> eDen]

\* -ln(k/4) in ten-thousandths, for the draws k/4 that are not 0
NegLn(k) == CASE k = 1 -> 13862 [] k = 2 -> 6931 [] k = 3 -> 2876

\* u < Math.min(1, proposedProb / currentProb) for u = k/4 and two positive
\* densities; both were computed with the same variance, so the ratio is exp(-d) with
\* d = (prop.eNum - cur.eNum) / eDen.  The ratio is >= 1 exactly when d <= 0,
\* and then every u < 1 passes; u = 0 passes for every positive ratio;
\* otherwise u < exp(-d) iff d < -ln u (four digits of -ln u decide every
\* comparison on the model's grid of positions and deviations).
RandomBelowRatio(k, cur, prop) ==
    LET dNum == prop.eNum - cur.eNum
        dDen == cur.eDen
    IN  \/ dNum <= 0
        \/ k = 0
        \/ k # 0 /\ dNum * 10000 < NegLn(k) * dDen

\* proposePosition(): currentPosition + (random - 0.5) * 2 * proposalStd * sqrt(12),
\* random = r/4, rounded to the grid of tenths
proposePosition(r) ==
    LET twice == r - 2      \* (random - 0.5) * 2 = (r - 2) / 2
        mag == IF twice < 0 THEN -twice ELSE twice
        step == RoundDiv(mag * proposalStd * Sqrt12Milli, 2000)
    IN  currentPosition + (IF twice < 0 THEN -step ELSE step)

\* acceptProposal(current, proposed), u the second Math.random() draw.
\* A comparison with NaN is false.  A proposedProb of 0 makes the ratio 0
\* (or 0/0 = NaN when currentProb is 0 as well), and no u >= 0 is below it;
\* a positive proposedProb over a currentProb of 0 is Infinity, and
\* Math.min(1, Infinity) = 1 is above every u.
acceptProposal(current, proposed, u) ==
    LET currentProb == targetDensity(current)
        proposedProb == targetDensity(proposed)
    IN  CASE currentProb.nan \/ proposedProb.nan -> FALSE
          [] ~currentProb.nan /\ ~proposedProb.nan /\ proposedProb.zero -> FALSE
          [] ~currentProb.nan /\ ~proposedProb.zero /\ currentProb.zero -> TRUE
          [] OTHER -> RandomBelowRatio(u, currentProb, proposedProb)

\* the text updateStats() builds for #acceptance-rate, without the '%':
\* the number 0 when there are no samples, else toFixed(1) of the percentage
\* (kept in tenths of a percent)
updateStats(smp, acc) ==
    IF Len(smp) > 0
    THEN [fixed |-> TRUE, tenths |-> RoundDiv(acc * 1000, Len(smp))]
    ELSE [fixed |-> FALSE, tenths |-> 0]

\* requestAnimationFrame's handle
NewFrame == CHOOSE id \in 1 .. (MaxFrames + 1) :
                /\ id \notin frames
                /\ \A j \in 1 .. (id - 1) : j \in frames

----------------------------------------------------------------------------
(* MCMC1D: constructor *)

InitMCMC ==
    /\ proposalStd = InitProposalStd
    /\ targetMean = InitTargetMean
    /\ targetStd = InitTargetStd
    /\ animationSpeed = InitAnimationSpeed
    /\ currentPosition = Origin
    /\ proposedPosition = Origin
    /\ samples = <<>>
    /\ acceptedSamples = 0
    /\ isRunning = FALSE
    /\ animationId = NoAnimation
    /\ timeouts = 0
    /\ frames = {}
    /\ acceptanceRate = updateStats(<<>>, 0)

----------------------------------------------------------------------------
(* MCMC1D: handlers *)

\* Step with the push inside `if (accepted)`: a rejected proposal is not recorded
StepDropsRejected(r, u) ==
    LET proposed == proposePosition(r)
        accepted == acceptProposal(currentPosition, proposed, u)
        position == IF accepted THEN proposed ELSE currentPosition
        count == IF accepted THEN acceptedSamples + 1 ELSE acceptedSamples
        recorded == IF accepted THEN Append(samples, position) ELSE samples
    IN  /\ Len(samples) < MaxSamples
        /\ timeouts < MaxTimeouts
        /\ proposedPosition' = proposed
        /\ currentPosition' = position
        /\ acceptedSamples' = count
        /\ samples' = recorded
        /\ acceptanceRate' = updateStats(recorded, count)
        /\ timeouts' = timeouts + 1

\* Step that pushes the proposal, accepted or not
StepRecordsProposal(r, u) ==
    LET proposed == proposePosition(r)
        accepted == acceptProposal(currentPosition, proposed, u)
        position == IF accepted THEN proposed ELSE currentPosition
        count == IF accepted THEN acceptedSamples + 1 ELSE acceptedSamples
    IN  /\ Len(samples) < MaxSamples
        /\ timeouts < MaxTimeouts
        /\ proposedPosition' = proposed
        /\ currentPosition' = position
        /\ acceptedSamples' = count
        /\ samples' = Append(samples, proposed)
        /\ acceptanceRate' = updateStats(Append(samples, proposed), count)
        /\ timeouts' = timeouts + 1

\* Step that schedules the next tick only after an accepted proposal
StepSchedulesOnAccept(r, u) ==
    LET proposed == proposePosition(r)
        accepted == acceptProposal(currentPosition, proposed, u)
        position == IF accepted THEN proposed ELSE currentPosition
        count == IF accepted THEN acceptedSamples + 1 ELSE acceptedSamples
    IN  /\ Len(samples) < MaxSamples
        /\ timeouts < MaxTimeouts
        /\ proposedPosition' = proposed
        /\ currentPosition' = position
        /\ acceptedSamples' = count
        /\ samples' = Append(samples, position)
        /\ acceptanceRate' = updateStats(Append(samples, position), count)
        /\ timeouts' = IF accepted THEN timeouts + 1 ELSE timeouts

\* the body of animate() below its `if (!this.isRunning) return`:
\* one sampler step with the draws r (proposal) and u (acceptance),
\* updateAll(), and the setTimeout for the next tick
Step(r, u) ==
    LET proposed == proposePosition(r)
        accepted == acceptProposal(currentPosition, proposed, u)
        position == IF accepted THEN proposed ELSE currentPosition
        count == IF accepted THEN acceptedSamples + 1 ELSE acceptedSamples
    IN  /\ Len(samples) < MaxSamples
        /\ timeouts < MaxTimeouts
        /\ proposedPosition' = proposed
        /\ currentPosition' = position
        /\ acceptedSamples' = count
        /\ samples' = Append(samples, position)
        /\ acceptanceRate' = updateStats(Append(samples, position), count)
        /\ timeouts' = timeouts + 1

\* startSampling(): isRunning = true, then animate(), which finds the flag set
StartSampling ==
    /\ isRunning' = TRUE
    /\ \E r \in RandomDraws, u \in RandomDraws : Step(r, u)
    /\ UNCHANGED <<paramVars, animationId, frames>>
    /\ lastOp' = "start"
    /\ UNCHANGED medVars

\* pauseSampling(): clears the flag and cancels the frame animationId names
pauseSampling ==
    /\ isRunning' = FALSE
    /\ frames' = IF animationId # NoAnimation THEN frames \ {animationId} ELSE frames
    /\ UNCHANGED <<animationId, timeouts>>

PauseSampling ==
    /\ pauseSampling
    /\ UNCHANGED <<paramVars, chainVars, acceptanceRate>>
    /\ lastOp' = "pause"
    /\ UNCHANGED medVars

\* ResetSampling without `this.acceptedSamples = 0`
ResetKeepsAccepted ==
    /\ pauseSampling
    /\ currentPosition' = Origin
    /\ proposedPosition' = Origin
    /\ samples' = <<>>
    /\ acceptanceRate' = updateStats(<<>>, acceptedSamples)
    /\ UNCHANGED <<paramVars, acceptedSamples>>
    /\ lastOp' = "reset"
    /\ UNCHANGED medVars

\* ResetSampling without `this.proposedPosition = 0.0`
ResetKeepsProposed ==
    /\ pauseSampling
    /\ currentPosition' = Origin
    /\ samples' = <<>>
    /\ acceptedSamples' = 0
    /\ acceptanceRate' = updateStats(<<>>, 0)
    /\ UNCHANGED <<paramVars, proposedPosition>>
    /\ lastOp' = "reset"
    /\ UNCHANGED medVars

\* resetSampling(): pauseSampling(), the chain back to the origin, updateAll()
ResetSampling ==
    /\ pauseSampling
    /\ currentPosition' = Origin
    /\ proposedPosition' = Origin
    /\ samples' = <<>>
    /\ acceptedSamples' = 0
    /\ acceptanceRate' = updateStats(<<>>, 0)
    /\ UNCHANGED paramVars
    /\ lastOp' = "reset"
    /\ UNCHANGED medVars

\* the 'input' listeners of the four sliders: the handler, then updateAll()
ProposalStdInput ==
    /\ \E val \in ProposalStdValues : proposalStd' = val
    /\ acceptanceRate' = updateStats(samples, acceptedSamples)
    /\ UNCHANGED <<targetMean, targetStd, animationSpeed, chainVars, loopVars>>
    /\ lastOp' = "input"
    /\ UNCHANGED medVars

\* TargetMeanInput that also restarts the chain for the new target
TargetMeanInputRestarts ==
    /\ \E val \in TargetMeanValues : targetMean' = val
    /\ currentPosition' = Origin
    /\ proposedPosition' = Origin
    /\ samples' = <<>>
    /\ acceptedSamples' = 0
    /\ acceptanceRate' = updateStats(<<>>, 0)
    /\ UNCHANGED <<proposalStd, targetStd, animationSpeed, loopVars>>
    /\ lastOp' = "input"
    /\ UNCHANGED medVars

TargetMeanInput ==
    /\ \E val \in TargetMeanValues : targetMean' = val
    /\ acceptanceRate' = updateStats(samples, acceptedSamples)
    /\ UNCHANGED <<proposalStd, targetStd, animationSpeed, chainVars, loopVars>>
    /\ lastOp' = "input"
    /\ UNCHANGED medVars

TargetStdInput ==
    /\ \E val \in TargetStdValues : targetStd' = val
    /\ acceptanceRate' = updateStats(samples, acceptedSamples)
    /\ UNCHANGED <<proposalStd, targetMean, animationSpeed, chainVars, loopVars>>
    /\ lastOp' = "input"
    /\ UNCHANGED medVars

AnimationSpeedInput ==
    /\ \E val \in AnimationSpeedValues : animationSpeed' = val
    /\ acceptanceRate' = updateStats(samples, acceptedSamples)
    /\ UNCHANGED <<proposalStd, targetMean, targetStd, chainVars, loopVars>>
    /\ lastOp' = "input"
    /\ UNCHANGED medVars

\* a setTimeout callback of animate() runs: it requests an animation frame
\* and stores the handle
TimeoutFires ==
    /\ timeouts > 0
    /\ timeouts' = timeouts - 1
    /\ Cardinality(frames) < MaxFrames
    /\ animationId' = NewFrame
    /\ frames' = frames \cup {NewFrame}
    /\ UNCHANGED <<paramVars, chainVars, acceptanceRate, isRunning>>
    /\ lastOp' = "timeout"
    /\ UNCHANGED medVars

\* an animation frame callback runs animate() while the sampler is paused:
\* animate() returns at once
FrameFiresPaused ==
    /\ ~isRunning
    /\ \E id \in frames : frames' = frames \ {id}
    /\ UNCHANGED <<paramVars, chainVars, acceptanceRate, isRunning, animationId, timeouts>>
    /\ lastOp' = "frame-idle"
    /\ UNCHANGED medVars

\* FrameFiresRunning without the `if (!this.isRunning) return` of animate()
FrameFiresUnguarded ==
    /\ \E id \in frames : frames' = frames \ {id}
    /\ \E r \in RandomDraws, u \in RandomDraws : Step(r, u)
    /\ UNCHANGED <<paramVars, isRunning, animationId>>
    /\ lastOp' = "frame-step"
    /\ UNCHANGED medVars

\* an animation frame callback runs animate() while the sampler is running
FrameFiresRunning ==
    /\ isRunning
    /\ \E id \in frames : frames' = frames \ {id}
    /\ \E r \in RandomDraws, u \in RandomDraws : Step(r, u)
    /\ UNCHANGED <<paramVars, isRunning, animationId>>
    /\ lastOp' = "frame-step"
    /\ UNCHANGED medVars

Next ==
    \/ StartSampling
    \/ PauseSampling
    \/ ResetSampling
    \/ ProposalStdInput
    \/ TargetMeanInput
    \/ TargetStdInput
    \/ AnimationSpeedInput
    \/ TimeoutFires
    \/ FrameFiresPaused
    \/ FrameFiresRunning

----------------------------------------------------------------------------
(* MedicalTestCalculator *)

\* values the three percentage sliders deliver (half percents):
\* 0, 0.5, 1, 1.5, 50, 95 and 100 percent
PercentValues == {0, 1, 2, 3, 100, 190, 200}

\* calculatePosterior whose denominator lacks the true-positive term
calculatePosteriorNoTruePositives(p, s, t) ==
    LET num == s * p
        den == (FullPercent - t) * (FullPercent - p)
    IN  IF den = 0
        THEN [nan |-> TRUE, num |-> 0, den |-> 0]
        ELSE [nan |-> FALSE, num |-> num, den |-> den]

\* calculatePosterior that leaves the prior out of the true-positive term
calculatePosteriorIgnoresPrior(p, s, t) ==
    LET num == s * FullPercent
        den == s * FullPercent + (FullPercent - t) * (FullPercent - p)
    IN  IF den = 0
        THEN [nan |-> TRUE, num |-> 0, den |-> 0]
        ELSE [nan |-> FALSE, num |-> num, den |-> den]

\* calculatePosterior that takes the specificity for the false-positive rate
calculatePosteriorSpecificityAsRate(p, s, t) ==
    LET num == s * p
        den == s * p + t * (FullPercent - p)
    IN  IF den = 0
        THEN [nan |-> TRUE, num |-> 0, den |-> 0]
        ELSE [nan |-> FALSE, num |-> num, den |-> den]

\* calculatePosterior that takes the miss rate 100 - sensitivity for the
\* sensitivity
calculatePosteriorMissRate(p, s, t) ==
    LET num == (FullPercent - s) * p
        den == (FullPercent - s) * p + (FullPercent - t) * (FullPercent - p)
    IN  IF den = 0
        THEN [nan |-> TRUE, num |-> 0, den |-> 0]
        ELSE [nan |-> FALSE, num |-> num, den |-> den]

\* calculatePosterior() for the fields (prevalence, sensitivity, specificity) =
\* (p, s, t): (s/100 * p/100) / (s/100 * p/100 + (100-t)/100 * (1 - p/100)),
\* kept as the fraction num/den with both scaled by FullPercent * FullPercent.
\* The code divides without looking at the denominator (lines 21-22 run for
\* every input: `divided`); the denominator is 0 only together with the
\* numerator, and 0/0 is NaN.
calculatePosterior(p, s, t) ==
    LET num == s * p
        den == s * p + (FullPercent - t) * (FullPercent - p)
    IN  IF den = 0
        THEN [nan |-> TRUE, num |-> 0, den |-> 0, divided |-> TRUE]
        ELSE [nan |-> FALSE, num |-> num, den |-> den, divided |-> TRUE]

\* calculatePopulationStats whose false negatives are rounded from the miss
\* rate instead of taken as the remainder
calculatePopulationStatsRoundsMisses(p, s, t) ==
    LET diseased == RoundDiv(Total * p, FullPercent)
        healthy == Total - diseased
        true_positives == RoundDiv(diseased * s, FullPercent)
        false_negatives == RoundDiv(diseased * (FullPercent - s), FullPercent)
        true_negatives == RoundDiv(healthy * t, FullPercent)
        false_positives == healthy - true_negatives
    IN  [total |-> Total, diseased |-> diseased, healthy |-> healthy,
         true_positives |-> true_positives, false_negatives |-> false_negatives,
         true_negatives |-> true_negatives, false_positives |-> false_positives,
         total_positives |-> true_positives + false_positives,
         total_negatives |-> true_negatives + false_negatives]

\* calculatePopulationStats with Math.floor in the place of Math.round
calculatePopulationStatsFloors(p, s, t) ==
    LET diseased == (Total * p) \div FullPercent
        healthy == Total - diseased
        true_positives == (diseased * s) \div FullPercent
        false_negatives == diseased - true_positives
        true_negatives == (healthy * t) \div FullPercent
        false_positives == healthy - true_negatives
    IN  [total |-> Total, diseased |-> diseased, healthy |-> healthy,
         true_positives |-> true_positives, false_negatives |-> false_negatives,
         true_negatives |-> true_negatives, false_positives |-> false_positives,
         total_positives |-> true_positives + false_positives,
         total_negatives |-> true_negatives + false_negatives]

\* calculatePopulationStats() for the fields (prevalence, sensitivity,
\* specificity) = (p, s, t); Math.round(x) is the integer nearest to x, a
\* half going up
calculatePopulationStats(p, s, t) ==
    LET diseased == RoundDiv(Total * p, FullPercent)
        healthy == Total - diseased
        true_positives == RoundDiv(diseased * s, FullPercent)
        false_negatives == diseased - true_positives
        true_negatives == RoundDiv(healthy * t, FullPercent)
        false_positives == healthy - true_negatives
    IN  [total |-> Total, diseased |-> diseased, healthy |-> healthy,
         true_positives |-> true_positives, false_negatives |-> false_negatives,
         true_negatives |-> true_negatives, false_positives |-> false_positives,
         total_positives |-> true_positives + false_positives,
         total_negatives |-> true_negatives + false_negatives]

\* updateResult(): (posterior * 100).toFixed(1), without the '%';
\* NaN.toFixed(1) is the text NaN
updateResult(p, s, t) ==
    LET posterior == calculatePosterior(p, s, t) IN
    IF posterior.nan
    THEN [nan |-> TRUE, tenths |-> 0]
    ELSE [nan |-> FALSE, tenths |-> RoundAway(posterior.num * 1000, posterior.den)]

InitMed ==
    /\ prevalence = InitPrevalence
    /\ sensitivity = InitSensitivity
    /\ specificity = InitSpecificity
    /\ resultProbability = updateResult(InitPrevalence, InitSensitivity, InitSpecificity)

\* the 'input' listeners of the three sliders: the assignment, then updateAll()
PrevalenceInput ==
    /\ \E val \in PercentValues :
          /\ prevalence' = val
          /\ resultProbability' = updateResult(val, sensitivity, specificity)
    /\ UNCHANGED <<sensitivity, specificity>>
    /\ lastOp' = "input"
    /\ UNCHANGED mcmcVars

SensitivityInput ==
    /\ \E val \in PercentValues :
          /\ sensitivity' = val
          /\ resultProbability' = updateResult(prevalence, val, specificity)
    /\ UNCHANGED <<prevalence, specificity>>
    /\ lastOp' = "input"
    /\ UNCHANGED mcmcVars

SpecificityInput ==
    /\ \E val \in PercentValues :
          /\ specificity' = val
          /\ resultProbability' = updateResult(prevalence, sensitivity, val)
    /\ UNCHANGED <<prevalence, sensitivity>>
    /\ lastOp' = "input"
    /\ UNCHANGED mcmcVars

NextCalc ==
    \/ PrevalenceInput
    \/ SensitivityInput
    \/ SpecificityInput

----------------------------------------------------------------------------
(* Specifications: each page runs one widget *)

Init == InitMCMC /\ InitMed /\ lastOp = "init"

\* the MCMC page
Spec == Init /\ [][Next]_vars

\* the medical-test page
SpecMed == Init /\ [][NextCalc]_vars

----------------------------------------------------------------------------
(* Input events with arbitrary values.  The listeners take e.target.value  *)
(* as it comes (parseFloat, lines 52-54 of mcmc-1d.js and 57, 62, 67 of    *)
(* medical-test.js); the range a slider keeps its value in is set in the   *)
(* page, not in the scripts, and an event may carry any number.            *)

\* standard deviations an event may carry (tenths): -0.5, 0, 0.5
AnyStdValues == {-5, 0, 5}
\* percentages an event may carry: -1, 50 and 101 percent (no combination
\* of them and of the initial values makes the denominator of the posterior 0)
AnyPercentValues == {Pct(-1), Pct(50), Pct(101)}

ProposalStdInputAny ==
    /\ \E val \in AnyStdValues : proposalStd' = val
    /\ acceptanceRate' = updateStats(samples, acceptedSamples)
    /\ UNCHANGED <<targetMean, targetStd, animationSpeed, chainVars, loopVars>>
    /\ lastOp' = "input"
    /\ UNCHANGED medVars

TargetStdInputAny ==
    /\ \E val \in AnyStdValues : targetStd' = val
    /\ acceptanceRate' = updateStats(samples, acceptedSamples)
    /\ UNCHANGED <<proposalStd, targetMean, animationSpeed, chainVars, loopVars>>
    /\ lastOp' = "input"
    /\ UNCHANGED medVars

PrevalenceInputAny ==
    /\ \E val \in AnyPercentValues :
          /\ prevalence' = val
          /\ resultProbability' = updateResult(val, sensitivity, specificity)
    /\ UNCHANGED <<sensitivity, specificity>>
    /\ lastOp' = "input"
    /\ UNCHANGED mcmcVars

SensitivityInputAny ==
    /\ \E val \in AnyPercentValues :
          /\ sensitivity' = val
          /\ resultProbability' = updateResult(prevalence, val, specificity)
    /\ UNCHANGED <<prevalence, specificity>>
    /\ lastOp' = "input"
    /\ UNCHANGED mcmcVars

SpecificityInputAny ==
    /\ \E val \in AnyPercentValues :
          /\ specificity' = val
          /\ resultProbability' = updateResult(prevalence, sensitivity, val)
    /\ UNCHANGED <<prevalence, sensitivity>>
    /\ lastOp' = "input"
    /\ UNCHANGED mcmcVars

\* both pages, their sliders moved by events with arbitrary values, and the
\* sampler started
NextAny ==
    \/ ProposalStdInputAny
    \/ TargetStdInputAny
    \/ PrevalenceInputAny
    \/ SensitivityInputAny
    \/ SpecificityInputAny
    \/ StartSampling

SpecAny == Init /\ [][NextAny]_vars

----------------------------------------------------------------------------
(* Properties of the MCMC page (checked under Spec) *)

\* a sampler step ran: animate() got past its isRunning test, called by
\* startSampling() or by an animation frame
StepRan == lastOp' \in {"start", "frame-step"}

\* C1: every sampler step appends exactly one element to samples, leaves the
\* earlier elements as they were, and raises acceptedSamples by 0 or by 1,
\* whether the proposal was accepted or rejected.
C1_StepAppendsOne ==
    [][StepRan =>
          /\ Len(samples') = Len(samples) + 1
          /\ SubSeq(samples', 1, Len(samples)) = samples
          /\ acceptedSamples' - acceptedSamples \in {0, 1}]_vars

\* C1 witness: two steps were recorded, one accepted and one rejected
C1_Witness ==
    /\ lastOp = "frame-step"
    /\ Len(samples) = 2
    /\ acceptedSamples = 1

C3_ResetClears ==
    lastOp = "reset" =>
        /\ samples = <<>>
        /\ acceptedSamples = 0
        /\ currentPosition = Origin
        /\ proposedPosition = Origin

\* C3 witness: reset ran on a sampler whose loop had been started and still
\* has a tick pending
C3_Witness ==
    /\ lastOp = "reset"
    /\ timeouts > 0

\* C4: while isRunning is false (pauseSampling or resetSampling has run and
\* startSampling has not run since) no sampler step is performed, also when
\* a timeout or an animation frame scheduled earlier fires; samples,
\* currentPosition and acceptedSamples change only by a reset.
C4_PauseStopsSteps ==
    [][(~isRunning /\ lastOp' # "start") =>
          /\ lastOp' # "frame-step"
          /\ lastOp' # "reset" =>
                UNCHANGED <<samples, currentPosition, acceptedSamples>>]_vars

\* C4 witness: a frame scheduled before the pause has fired while paused,
\* with a chain to protect
C4_Witness ==
    /\ lastOp = "frame-idle"
    /\ ~isRunning
    /\ samples # <<>>

\* C5: at most one tick (pending timeout or pending animation frame) is
\* scheduled for the sampler in every reachable state.
C5_SingleLoop == timeouts + Cardinality(frames) <= 1

\* C6: pauseSampling and the four slider handlers leave the chain
\* (currentPosition, proposedPosition, samples, acceptedSamples) unchanged,
\* and a sampler step leaves the four parameters unchanged.
C6_Frame ==
    [][/\ lastOp' \in {"pause", "input"} => UNCHANGED chainVars
       /\ StepRan => UNCHANGED paramVars]_vars

\* C6 witness: a slider was moved while the chain held an accepted sample
\* away from the origin
C6_Witness ==
    /\ lastOp = "input"
    /\ samples # <<>>
    /\ currentPosition # Origin
    /\ targetMean # InitTargetMean

----------------------------------------------------------------------------
(* Properties of the medical-test page (checked under SpecMed) *)

\* the posterior of the current fields
Posterior == calculatePosterior(prevalence, sensitivity, specificity)

\* both terms of the denominator are 0
Degenerate(p, s, t) == (s = 0 \/ p = 0) /\ (t = FullPercent \/ p = FullPercent)

\* a <= b for two posteriors that are numbers
Leq(a, b) == a.num * b.den <= b.num * a.den

\* C7, as stated: for all valid inputs the posterior is a number in [0,1],
\* with den > 0 and 0 <= num <= den.
C7_AlwaysInUnitInterval ==
    /\ ~Posterior.nan
    /\ Posterior.den > 0
    /\ 0 <= Posterior.num
    /\ Posterior.num <= Posterior.den

\* C7, amended: for all valid inputs but the degenerate ones the posterior
\* is a number in [0,1] (den > 0, 0 <= num <= den); for the degenerate ones
\* (sensitivity or prevalence 0 together with specificity or prevalence 100)
\* the denominator is 0 and the result is NaN.
C7_InUnitIntervalUnlessDegenerate ==
    IF Degenerate(prevalence, sensitivity, specificity)
    THEN Posterior.nan
    ELSE /\ ~Posterior.nan
         /\ Posterior.den > 0
         /\ 0 <= Posterior.num
         /\ Posterior.num <= Posterior.den

\* C7 witness: after a slider input, a posterior strictly inside (0,1)
C7_Witness ==
    /\ lastOp = "input"
    /\ ~Posterior.nan
    /\ 0 < Posterior.num
    /\ Posterior.num < Posterior.den

\* C8, as stated: with prevalence 0 the posterior is exactly 0 for every
\* sensitivity and every specificity, specificity 100 included.
C8_ZeroPrevalenceZero ==
    prevalence = 0 => (~Posterior.nan /\ Posterior.num = 0)

\* C8, amended: with prevalence 0 the posterior is exactly 0 for every
\* sensitivity and every specificity below 100; with specificity 100 it is NaN.
C8_ZeroPrevalenceZeroBelow100 ==
    prevalence = 0 =>
        IF specificity = Pct(100)
        THEN Posterior.nan
        ELSE ~Posterior.nan /\ Posterior.num = 0 /\ Posterior.den > 0

\* C8 witness: prevalence set to 0 with a fully sensitive, imperfect test
C8_Witness ==
    /\ lastOp = "input"
    /\ prevalence = 0
    /\ sensitivity = Pct(100)
    /\ specificity = Pct(95)

\* C9: with sensitivity 100 and specificity 100 the posterior is exactly 1
\* for every prevalence above 0.
C9_PerfectTestOne ==
    (sensitivity = Pct(100) /\ specificity = Pct(100) /\ prevalence > 0) =>
        /\ ~Posterior.nan
        /\ Posterior.den > 0
        /\ Posterior.num = Posterior.den

\* C9 witness: the scenario prevalence 50, sensitivity 100, specificity 100
C9_Witness ==
    /\ lastOp = "input"
    /\ prevalence = Pct(50)
    /\ sensitivity = Pct(100)
    /\ specificity = Pct(100)
    /\ resultProbability = [nan |-> FALSE, tenths |-> 1000]

\* one slider went up (or stayed) and the other two fields stayed
RaisedOne ==
    \/ sensitivity' >= sensitivity /\ UNCHANGED <<prevalence, specificity>>
    \/ prevalence' >= prevalence /\ UNCHANGED <<sensitivity, specificity>>

\* C10, as stated: raising sensitivity alone, or prevalence alone, never
\* lowers the posterior, and both results are comparable numbers.
C10_Monotone ==
    [][RaisedOne =>
          /\ ~Posterior.nan
          /\ ~Posterior'.nan
          /\ Leq(Posterior, Posterior')]_vars

\* C10, amended: raising sensitivity alone, or prevalence alone, never lowers
\* the posterior whenever both results are numbers (neither input is
\* degenerate); at a degenerate input the result is NaN.
C10_MonotoneWhereDefined ==
    [][RaisedOne =>
          /\ Posterior.nan <=> Degenerate(prevalence, sensitivity, specificity)
          /\ (~Posterior.nan /\ ~Posterior'.nan) => Leq(Posterior, Posterior')]_vars

\* C10 witness: the sliders have been raised to an imperfect test with a
\* posterior strictly inside (0,1)
C10_Witness ==
    /\ lastOp = "input"
    /\ prevalence = Pct(50)
    /\ sensitivity = Pct(95)
    /\ specificity = Pct(50)
    /\ ~Posterior.nan

\* C11: in the degenerate case (both terms of the denominator 0)
\* calculatePosterior finds the case by a check and does not divide, and what
\* is shown is an error, not a number; for every other valid input it
\* returns a number.
C11_DegenerateGuarded ==
    IF Degenerate(prevalence, sensitivity, specificity)
    THEN ~Posterior.divided
    ELSE ~Posterior.nan /\ ~resultProbability.nan

\* the population statistics of the current fields
Stats == calculatePopulationStats(prevalence, sensitivity, specificity)

\* C13: for all valid inputs the four cells are non-negative integers whose
\* sum differs from total by at most a few units (here: by nothing), because
\* false_negatives and false_positives are remainders: true_positives +
\* false_negatives = diseased, true_negatives + false_positives = healthy,
\* diseased + healthy = total, total_positives + total_negatives = total.
C13_CellsPartitionTotal ==
    /\ Stats.total = Total
    /\ Stats.diseased \in 0 .. Total
    /\ Stats.true_positives \in Nat
    /\ Stats.false_negatives \in Nat
    /\ Stats.true_negatives \in Nat
    /\ Stats.false_positives \in Nat
    /\ Stats.true_positives + Stats.false_negatives = Stats.diseased
    /\ Stats.true_negatives + Stats.false_positives = Stats.healthy
    /\ Stats.diseased + Stats.healthy = Stats.total
    /\ Stats.total_positives + Stats.total_negatives = Stats.total
    /\ Stats.true_positives + Stats.false_negatives
         + Stats.true_negatives + Stats.false_positives = Stats.total

\* C13 witness: a slider input gave a population in which both roundings
\* are ties (47.5 of 50 diseased, 9452.5 of 9950 healthy) and all four
\* cells are occupied
C13_Witness ==
    /\ lastOp = "input"
    /\ prevalence = 1
    /\ Stats.diseased = 50
    /\ Stats.false_negatives = 2
    /\ Stats.false_positives = 497

\* n is the integer nearest to a / b, a half going up (b > 0)
IsRounded(n, a, b) == 2 * n * b - b <= 2 * a /\ 2 * a < 2 * n * b + b

\* C14: with total = 10000 the counts are rounded at each split: diseased =
\* round(total * prevalence / 100), healthy = total - diseased,
\* true_positives = round(diseased * sensitivity / 100), true_negatives =
\* round(healthy * specificity / 100), the other two cells the complements;
\* prevalence 1, sensitivity 95, specificity 95 give diseased 100,
\* true positives 95, false positives 495, true negatives 9405, false
\* negatives 5.
C14_RoundedAtEachSplit ==
    /\ IsRounded(Stats.diseased, Total * prevalence, FullPercent)
    /\ Stats.healthy = Total - Stats.diseased
    /\ IsRounded(Stats.true_positives, Stats.diseased * sensitivity, FullPercent)
    /\ IsRounded(Stats.true_negatives, Stats.healthy * specificity, FullPercent)
    /\ Stats.false_negatives = Stats.diseased - Stats.true_positives
    /\ Stats.false_positives = Stats.healthy - Stats.true_negatives
    /\ (prevalence = Pct(1) /\ sensitivity = Pct(95) /\ specificity = Pct(95)) =>
          /\ Stats.diseased = 100
          /\ Stats.true_positives = 95
          /\ Stats.false_positives = 495
          /\ Stats.true_negatives = 9405
          /\ Stats.false_negatives = 5

\* C14 witness: slider inputs gave counts that needed rounding, one at a
\* tie (50 * 95 / 100 = 47.5 -> 48) and one downwards
\* (9950 * 1.5 / 100 = 149.25 -> 149)
C14_Witness ==
    /\ lastOp = "input"
    /\ prevalence = 1
    /\ sensitivity = Pct(95)
    /\ Stats.true_positives = 48
    /\ specificity = 3
    /\ Stats.true_negatives = 149

----------------------------------------------------------------------------
(* Properties of the parameter-setting boundary (checked under SpecAny) *)

\* C12: after any sequence of input events with arbitrary values the stored
\* parameters are valid: targetStd > 0, proposalStd > 0 and the three
\* percentages within 0 .. 100 (an out-of-range value is not stored).
C12_ParametersValid ==
    /\ targetStd > 0
    /\ proposalStd > 0
    /\ 0 <= prevalence /\ prevalence <= FullPercent
    /\ 0 <= sensitivity /\ sensitivity <= FullPercent
    /\ 0 <= specificity /\ specificity <= FullPercent

----------------------------------------------------------------------------
(* Further properties of the MCMC page (checked under Spec) *)

\* the step that just ran accepted its proposal
Accepted == acceptedSamples' = acceptedSamples + 1

\* the distance of x from the mean of the target
Dist(x) == IF x >= targetMean THEN x - targetMean ELSE targetMean - x

\* C15: a step that accepts makes currentPosition the proposal and raises
\* acceptedSamples by 1; a step that rejects leaves both; either way the
\* value appended is the new currentPosition.  So whenever samples is not
\* empty its last element is currentPosition.
C15_StepRecordsPosition ==
    /\ [](samples # <<>> => samples[Len(samples)] = currentPosition)
    /\ [][StepRan =>
            /\ Accepted \/ acceptedSamples' = acceptedSamples
            /\ Accepted => currentPosition' = proposedPosition'
            /\ ~Accepted => currentPosition' = currentPosition
            /\ samples' = Append(samples, currentPosition')]_vars

\* C15 witness: a rejected step recorded the unchanged position again,
\* away from the origin and from the proposal
C15_Witness ==
    /\ lastOp = "frame-step"
    /\ Len(samples) = 2
    /\ acceptedSamples = 1
    /\ samples[1] = samples[2]
    /\ currentPosition # Origin
    /\ proposedPosition # currentPosition

\* C16: a proposal at least as dense as the current position (not farther
\* from the mean of the target) is accepted whatever the uniform draw; a
\* step rejects only a proposal that is strictly farther from the mean.
C16_UphillAlwaysAccepted ==
    [][StepRan =>
          /\ Dist(proposedPosition') <= Dist(currentPosition) => Accepted
          /\ ~Accepted => Dist(proposedPosition') > Dist(currentPosition)]_vars

----------------------------------------------------------------------------
(* The running loop with fair timers (checked under SpecLoop) *)

\* the buttons and the callbacks of animate(), the sliders left alone
NextLoop ==
    \/ StartSampling
    \/ PauseSampling
    \/ ResetSampling
    \/ TimeoutFires
    \/ FrameFiresPaused
    \/ FrameFiresRunning

\* the browser runs every pending setTimeout callback and every pending
\* animation frame callback eventually
SpecLoop ==
    /\ Init
    /\ [][NextLoop]_vars
    /\ WF_vars(TimeoutFires)
    /\ WF_vars(FrameFiresPaused)
    /\ WF_vars(FrameFiresRunning)

\* callbacks of animate() that are pending
TicksPending == timeouts + Cardinality(frames)

\* the model holds as many pending callbacks as it can represent
Saturated == timeouts = MaxTimeouts /\ Cardinality(frames) = MaxFrames

====
